---- MODULE Spec2Model ----
(***************************************************************************)
(* format-docs: spreadsheet rows -> previewed and generated documents.     *)
(*                                                                         *)
(* Strings are sequences of one-character strings, so that trim, split,    *)
(* join, replace and the regular-expression replacements of the source are *)
(* computed on characters.  null / undefined of an optional value is the   *)
(* empty sequence <<>> of an option sequence, <<v>> is the value v.        *)
(*                                                                         *)
(* Specifications:                                                         *)
(*   Spec     the application: App handlers over Parser, Preview and the   *)
(*            HTML Generator (the only Generator that defines the          *)
(*            loadTemplate and fillTemplate App and Preview call)          *)
(*   NavSpec  the Preview object driven directly through its methods      *)
(*   GenSpec  Generator.generateAll called directly, both generators       *)
(*   ZipSpec  Generator.createZip called directly, both generators         *)
(***************************************************************************)
EXTENDS Integers, Sequences, FiniteSets, Bags, TLC

(***************************************************************************)
(* Strings                                                                 *)
(***************************************************************************)
UpperCase == <<"A", "B", "C", "D", "E", "F", "G", "H", "I", "J", "K", "L", "M", "N", "O", "P", "Q", "R", "S", "T", "U", "V", "W", "X", "Y", "Z">>

LowerCase == <<"a", "b", "c", "d", "e", "f", "g", "h", "i", "j", "k", "l", "m", "n", "o", "p", "q", "r", "s", "t", "u", "v", "w", "x", "y", "z">>

Digits == <<"0", "1", "2", "3", "4", "5", "6", "7", "8", "9">>

Range(s) == { s[i] : i \in DOMAIN s }

Min(a, b) == IF a < b THEN a ELSE b

(* \s of a JavaScript regular expression and the characters trim() strips, *)
(* restricted to the ASCII ones. *)
IsWhitespace(c) == c \in {" ", "\t", "\n", "\r", "\f"}

(* [a-zA-Z0-9\s\-_] *)
IsFilenameChar(c) ==
  \/ c \in Range(UpperCase)
  \/ c \in Range(LowerCase)
  \/ c \in Range(Digits)
  \/ IsWhitespace(c)
  \/ c \in {"-", "_"}

RECURSIVE Concat(_)
(* ss[1] \o ss[2] \o ... \o ss[Len(ss)] *)
Concat(ss) ==
  IF Len(ss) = 0 THEN <<>>
  ELSE IF Len(ss) = 1 THEN ss[1]
  ELSE LET half == Len(ss) \div 2
       IN Concat(SubSeq(ss, 1, half)) \o Concat(SubSeq(ss, half + 1, Len(ss)))

(* the least element of a non-empty set of integers *)
Least(S) == CHOOSE x \in S : \A y \in S : x <= y

(* the greatest element of a non-empty set of integers *)
Greatest(S) == CHOOSE x \in S : \A y \in S : y <= x

(* String.prototype.substring(0, n) *)
substring(s, n) == SubSeq(s, 1, Min(n, Len(s)))

(* String.prototype.trim *)
trim(s) ==
  LET kept == { i \in DOMAIN s : ~IsWhitespace(s[i]) }
  IN IF kept = {} THEN <<>> ELSE SubSeq(s, Least(kept), Greatest(kept))

(* pat occurs in s at position i (1-based) *)
OccursAt(s, pat, i) ==
  /\ i >= 1
  /\ i + Len(pat) - 1 <= Len(s)
  /\ pat = <<>> \/ s[i] = pat[1]
  /\ SubSeq(s, i, i + Len(pat) - 1) = pat

(* String.prototype.indexOf(pat, i-1) + 1: the first position >= i at which *)
(* pat occurs in s, 0 when there is none. *)
IndexFrom(s, pat, i) ==
  LET found == { j \in i .. Len(s) : OccursAt(s, pat, j) }
  IN IF found = {} THEN 0 ELSE Least(found)

RECURSIVE SplitJoin(_, _, _)
(* s.split(sep).join(rep) for a non-empty separator: every occurrence of   *)
(* sep, found left to right without overlap, is replaced by rep; rep is    *)
(* never scanned again. *)
SplitJoin(s, sep, rep) ==
  LET k == IndexFrom(s, sep, 1) IN
  IF k = 0 THEN s
  ELSE SubSeq(s, 1, k - 1) \o rep
         \o SplitJoin(SubSeq(s, k + Len(sep), Len(s)), sep, rep)

(* String.prototype.replace(pat, rep) with a string pattern and a          *)
(* replacement without $: only the first occurrence is replaced. *)
ReplaceFirst(s, pat, rep) ==
  LET k == IndexFrom(s, pat, 1) IN
  IF k = 0 THEN s
  ELSE SubSeq(s, 1, k - 1) \o rep \o SubSeq(s, k + Len(pat), Len(s))

RECURSIVE NumberToString(_)
(* String(n) of a non-negative integer *)
NumberToString(n) ==
  IF n < 10 THEN << Digits[n + 1] >>
  ELSE NumberToString(n \div 10) \o << Digits[(n % 10) + 1] >>

(* String.prototype.toLowerCase on ASCII *)
toLowerCase(s) ==
  [ i \in DOMAIN s |->
      IF s[i] \in Range(UpperCase)
      THEN LowerCase[CHOOSE k \in DOMAIN UpperCase : UpperCase[k] = s[i]]
      ELSE s[i] ]

(* s.split(sep).pop() for a one-character separator: the text after the    *)
(* last sep, all of s when sep does not occur. *)
LastSegment(s, sep) ==
  LET at == { i \in DOMAIN s : s[i] = sep }
  IN IF at = {} THEN s ELSE SubSeq(s, Greatest(at) + 1, Len(s))

(***************************************************************************)
(* Generator (HTML generator and docxtemplater generator)                  *)
(***************************************************************************)
(* Generator.mappings of the HTML generator: <<column, placeholder>> in
   Object.entries order. *)
mappings ==
  << << <<"C", "l", "i", "e", "n", "t">>,
        <<"[", "I", "N", "S", "E", "R", "T", "_", "C", "L", "I", "E", "N", "T", "_", "N", "A", "M", "E", "]">> >>,
     << <<"D", "e", "s", "i", "r", "e", "d", " ", "C", "o", "m", "p", "l", "e", "t", "i", "o", "n", " ", "D", "a", "t", "e">>,
        <<"[", "I", "N", "S", "E", "R", "T", "_", "D", "A", "T", "E", "]">> >>,
     << <<"R", "o", "o", "m", " ", "D", "e", "t", "a", "i", "l", "s", " ", "(", "W", "o", "r", "k", "l", "o", "a", "d", ")">>,
        <<"[", "I", "N", "S", "E", "R", "T", "_", "R", "O", "O", "M", "_", "D", "E", "T", "A", "I", "L", "S", "]">> >>,
     << <<"F", "u", "n", "c", "t", "i", "o", "n", "a", "l", " ", "R", "e", "q", "u", "i", "r", "e", "m", "e", "n", "t", "s">>,
        <<"[", "I", "N", "S", "E", "R", "T", "_", "F", "U", "N", "C", "T", "I", "O", "N", "A", "L", "_", "R", "E", "Q", "U", "I", "R", "E", "M", "E", "N", "T", "S", "]">> >>,
     << <<"C", "o", "n", "t", "r", "o", "l", " ", "S", "y", "s", "t", "e", "m", " ", "R", "e", "q", "u", "i", "r", "e", "m", "e", "n", "t", "s">>,
        <<"[", "I", "N", "S", "E", "R", "T", "_", "C", "O", "N", "T", "R", "O", "L", "_", "S", "Y", "S", "T", "E", "M", "]">> >>,
     << <<"P", "r", "e", "f", "e", "r", "r", "e", "d", " ", "B", "r", "a", "n", "d", "s", " ", "o", "r", " ", "T", "e", "c", "h", "n", "o", "l", "o", "g", "y", " ", "S", "t", "a", "n", "d", "a", "r", "d", "s">>,
        <<"[", "I", "N", "S", "E", "R", "T", "_", "B", "R", "A", "N", "D", "S", "_", "S", "T", "A", "N", "D", "A", "R", "D", "S", "]">> >>,
     << <<"E", "x", "i", "s", "t", "i", "n", "g", " ", "E", "q", "u", "i", "p", "m", "e", "n", "t", " ", "I", "n", "t", "e", "g", "r", "a", "t", "i", "o", "n">>,
        <<"[", "I", "N", "S", "E", "R", "T", "_", "E", "X", "I", "S", "T", "I", "N", "G", "_", "I", "N", "T", "E", "G", "R", "A", "T", "I", "O", "N", "]">> >>,
     << <<"N", "e", "t", "w", "o", "r", "k", " ", "S", "t", "r", "a", "t", "e", "g", "y">>,
        <<"[", "I", "N", "S", "E", "R", "T", "_", "C", "L", "I", "E", "N", "T", "_", "N", "E", "T", "W", "O", "R", "K", "_", "O", "R", "_", "D", "E", "D", "I", "C", "A", "T", "E", "D", "_", "A", "V", "]">> >>,
     << <<"C", "a", "b", "l", "i", "n", "g", " ", "&", " ", "I", "n", "f", "r", "a", "s", "t", "r", "u", "c", "t", "u", "r", "e">>,
        <<"[", "I", "N", "S", "E", "R", "T", "_", "C", "A", "B", "L", "I", "N", "G", "_", "D", "E", "T", "A", "I", "L", "S", "]">> >>,
     << <<"B", "u", "d", "g", "e", "t", "a", "r", "y", " ", "E", "s", "t", "i", "m", "a", "t", "e", "s">>,
        <<"[", "I", "N", "S", "E", "R", "T", "_", "B", "U", "D", "G", "E", "T", "]">> >>,
     << <<"S", "i", "t", "e", " ", "C", "o", "n", "s", "t", "r", "a", "i", "n", "t", "s">>,
        <<"[", "I", "N", "S", "E", "R", "T", "_", "S", "I", "T", "E", "_", "C", "O", "N", "S", "T", "R", "A", "I", "N", "T", "S", "]">> >> >>

(* Generator.mappings of the docxtemplater generator: <<column, tag>>. *)
docxMappings ==
  << << <<"C", "l", "i", "e", "n", "t">>,
        <<"I", "N", "S", "E", "R", "T", "_", "C", "L", "I", "E", "N", "T", "_", "N", "A", "M", "E">> >>,
     << <<"D", "e", "s", "i", "r", "e", "d", " ", "C", "o", "m", "p", "l", "e", "t", "i", "o", "n", " ", "D", "a", "t", "e">>,
        <<"I", "N", "S", "E", "R", "T", "_", "D", "A", "T", "E">> >>,
     << <<"R", "o", "o", "m", " ", "D", "e", "t", "a", "i", "l", "s", " ", "(", "W", "o", "r", "k", "l", "o", "a", "d", ")">>,
        <<"I", "N", "S", "E", "R", "T", "_", "R", "O", "O", "M", "_", "D", "E", "T", "A", "I", "L", "S">> >>,
     << <<"F", "u", "n", "c", "t", "i", "o", "n", "a", "l", " ", "R", "e", "q", "u", "i", "r", "e", "m", "e", "n", "t", "s">>,
        <<"I", "N", "S", "E", "R", "T", "_", "F", "U", "N", "C", "T", "I", "O", "N", "A", "L", "_", "R", "E", "Q", "U", "I", "R", "E", "M", "E", "N", "T", "S">> >>,
     << <<"C", "o", "n", "t", "r", "o", "l", " ", "S", "y", "s", "t", "e", "m", " ", "R", "e", "q", "u", "i", "r", "e", "m", "e", "n", "t", "s">>,
        <<"I", "N", "S", "E", "R", "T", "_", "C", "O", "N", "T", "R", "O", "L", "_", "S", "Y", "S", "T", "E", "M">> >>,
     << <<"P", "r", "e", "f", "e", "r", "r", "e", "d", " ", "B", "r", "a", "n", "d", "s", " ", "o", "r", " ", "T", "e", "c", "h", "n", "o", "l", "o", "g", "y", " ", "S", "t", "a", "n", "d", "a", "r", "d", "s">>,
        <<"I", "N", "S", "E", "R", "T", "_", "B", "R", "A", "N", "D", "S", "_", "S", "T", "A", "N", "D", "A", "R", "D", "S">> >>,
     << <<"E", "x", "i", "s", "t", "i", "n", "g", " ", "E", "q", "u", "i", "p", "m", "e", "n", "t", " ", "I", "n", "t", "e", "g", "r", "a", "t", "i", "o", "n">>,
        <<"I", "N", "S", "E", "R", "T", "_", "E", "X", "I", "S", "T", "I", "N", "G", "_", "I", "N", "T", "E", "G", "R", "A", "T", "I", "O", "N">> >>,
     << <<"N", "e", "t", "w", "o", "r", "k", " ", "S", "t", "r", "a", "t", "e", "g", "y">>,
        <<"I", "N", "S", "E", "R", "T", "_", "C", "L", "I", "E", "N", "T", "_", "N", "E", "T", "W", "O", "R", "K", "_", "O", "R", "_", "D", "E", "D", "I", "C", "A", "T", "E", "D", "_", "A", "V">> >>,
     << <<"C", "a", "b", "l", "i", "n", "g", " ", "&", " ", "I", "n", "f", "r", "a", "s", "t", "r", "u", "c", "t", "u", "r", "e">>,
        <<"I", "N", "S", "E", "R", "T", "_", "C", "A", "B", "L", "I", "N", "G", "_", "D", "E", "T", "A", "I", "L", "S">> >>,
     << <<"B", "u", "d", "g", "e", "t", "a", "r", "y", " ", "E", "s", "t", "i", "m", "a", "t", "e", "s">>,
        <<"I", "N", "S", "E", "R", "T", "_", "B", "U", "D", "G", "E", "T">> >>,
     << <<"S", "i", "t", "e", " ", "C", "o", "n", "s", "t", "r", "a", "i", "n", "t", "s">>,
        <<"I", "N", "S", "E", "R", "T", "_", "S", "I", "T", "E", "_", "C", "O", "N", "S", "T", "R", "A", "I", "N", "T", "S">> >> >>

(* row[column]: the option of the cell of a record *)
Get(row, column) == IF column \in DOMAIN row THEN << row[column] >> ELSE <<>>

(* row[column] || '' *)
ValueOrEmpty(row, column) ==
  IF column \in DOMAIN row THEN row[column] ELSE <<>>

(* The serialisation of a text node by innerHTML: & < > and U+00A0 are     *)
(* replaced, quotes are not.  U+00A0 is written "~". *)
EscapeChar(c) ==
  CASE c = "&" -> <<"&", "a", "m", "p", ";">>
    [] c = "<" -> <<"&", "l", "t", ";">>
    [] c = ">" -> <<"&", "g", "t", ";">>
    [] c = "~" -> <<"&", "n", "b", "s", "p", ";">>
    [] OTHER -> << c >>

(* Generator.escapeHtml *)
escapeHtml(text) ==
  IF text = <<>> THEN <<>>
  ELSE Concat([ i \in DOMAIN text |-> EscapeChar(text[i]) ])

RECURSIVE FillLoop(_, _, _)
(* The loop of fillTemplate over Object.entries(this.mappings), from entry *)
(* k on: an empty escaped value puts the placeholder back. *)
FillLoop(filledHtml, rowData, k) ==
  IF k > Len(mappings) THEN filledHtml
  ELSE
    LET column == mappings[k][1]
        placeholder == mappings[k][2]
        value == ValueOrEmpty(rowData, column)
        escapedValue == escapeHtml(value)
        joined == IF escapedValue # <<>> THEN escapedValue ELSE placeholder
    IN FillLoop(SplitJoin(filledHtml, placeholder, joined), rowData, k + 1)

(* Generator.fillTemplate, defined when the template is loaded *)
fillTemplate(tpl, rowData) == FillLoop(tpl, rowData, 1)

(* .replace(/[^a-zA-Z0-9\s\-_]/g, '') *)
RemoveNonFilenameChars(s) == SelectSeq(s, IsFilenameChar)

(* every whitespace character becomes "_" *)
UnderscoreEachWhitespace(s) ==
  [ i \in DOMAIN s |-> IF IsWhitespace(s[i]) THEN "_" ELSE s[i] ]

(* .replace(/\s+/g, '_'): the first character of every run of whitespace   *)
(* becomes "_", the rest of the run goes. *)
CollapseWhitespace(s) ==
  LET IsKept(c) == c # ""
      marked == [ i \in DOMAIN s |->
                    IF ~IsWhitespace(s[i]) THEN s[i]
                    ELSE IF i = 1 \/ ~IsWhitespace(s[i - 1]) THEN "_"
                    ELSE "" ]
  IN SelectSeq(marked, IsKept)

FilenameStemMax == 50

(* Generator.generateFilename(row, index), index 0-based *)
generateFilename(rowData, index) ==
  LET client == ValueOrEmpty(rowData, <<"C", "l", "i", "e", "n", "t">>)
      clientName == IF client # <<>> THEN client
                    ELSE <<"D", "o", "c", "u", "m", "e", "n", "t", "_">> \o NumberToString(index + 1)
      sanitized == substring(CollapseWhitespace(RemoveNonFilenameChars(clientName)),
                             FilenameStemMax)
  IN sanitized \o <<"_", "S", "p", "e", "c", "i", "f", "i", "c", "a", "t", "i", "o", "n", ".", "d", "o", "c", "x">>

(***************************************************************************)
(* Parser                                                                  *)
(***************************************************************************)
(* the local variables of parseCSVText *)
Scanner(lines, currentLine, currentValue, insideQuotes) ==
  [lines |-> lines, currentLine |-> currentLine,
   currentValue |-> currentValue, insideQuotes |-> insideQuotes]

RECURSIVE ScanCSV(_, _, _)
(* The for loop of parseCSVText from position i (1-based) on with the      *)
(* local variables v, and the statements after it. *)
ScanCSV(text, i, v) ==
  IF i > Len(text)
  THEN IF v.currentValue # <<>> \/ Len(v.currentLine) > 0
       THEN Append(v.lines, Append(v.currentLine, v.currentValue))
       ELSE v.lines
  ELSE
    LET char == text[i]
        hasNext == i + 1 <= Len(text)
        nextIsQuote == hasNext /\ text[i + 1] = "\""
        nextIsLF == hasNext /\ text[i + 1] = "\n"
    IN
    IF char = "\""
    THEN IF v.insideQuotes /\ nextIsQuote
         THEN ScanCSV(text, i + 2,
                      [v EXCEPT !.currentValue = Append(@, "\"")])
         ELSE ScanCSV(text, i + 1, [v EXCEPT !.insideQuotes = ~@])
    ELSE IF ~v.insideQuotes /\ char = ","
    THEN ScanCSV(text, i + 1,
                 [v EXCEPT !.currentLine = Append(@, v.currentValue),
                           !.currentValue = <<>>])
    ELSE IF ~v.insideQuotes /\ (char = "\n" \/ (char = "\r" /\ nextIsLF))
    THEN ScanCSV(text, IF char = "\r" THEN i + 2 ELSE i + 1,
                 [v EXCEPT !.lines = Append(@, Append(v.currentLine,
                                                      v.currentValue)),
                           !.currentLine = <<>>,
                           !.currentValue = <<>>])
    ELSE IF char # "\r"
    THEN ScanCSV(text, i + 1, [v EXCEPT !.currentValue = Append(@, char)])
    ELSE ScanCSV(text, i + 1, v)

(* the scan of the text without its quote characters *)
ScanIgnoringQuotes(text) ==
  ScanCSV(SelectSeq(text, LAMBDA c : c # "\""), 1,
          Scanner(<<>>, <<>>, <<>>, FALSE))

(* Parser.parseCSVText *)
parseCSVText(text) == ScanCSV(text, 1, Scanner(<<>>, <<>>, <<>>, FALSE))

(* no line is taken for a blank one *)
NoLineBlank(line) == FALSE

(* line.every(cell => !cell || cell.trim() === '') *)
IsBlankLine(line) == \A k \in DOMAIN line : trim(line[k]) = <<>>

(* The object the forEach over headers builds for one line: a later header *)
(* the object in which the first header of a name keeps its cell *)
RowObjectFirst(headers, line) ==
  [ h \in Range(headers) |->
      LET first == CHOOSE k \in DOMAIN headers :
                     /\ headers[k] = h
                     /\ \A j \in DOMAIN headers : headers[j] = h => k <= j
      IN IF first <= Len(line) THEN line[first] ELSE <<>> ]

(* of the same name overwrites an earlier one, a missing cell is ''. *)
RowObject(headers, line) ==
  [ h \in Range(headers) |->
      LET last == CHOOSE k \in DOMAIN headers :
                    /\ headers[k] = h
                    /\ \A j \in DOMAIN headers : headers[j] = h => j <= k
      IN IF last <= Len(line) THEN line[last] ELSE <<>> ]

RECURSIVE DataRows(_, _, _)
(* The loop over lines[1..] (0-based) of parseCSV and parseExcel *)
DataRows(headers, lines, i) ==
  IF i > Len(lines) THEN <<>>
  ELSE IF IsBlankLine(lines[i]) THEN DataRows(headers, lines, i + 1)
  ELSE << RowObject(headers, lines[i]) >> \o DataRows(headers, lines, i + 1)

(* A settled promise: the value of a fulfilled one, the message of a       *)
(* rejected one. *)
Fulfilled(headers, records) ==
  [ok |-> TRUE, headers |-> headers, rows |-> records, error |-> ""]

Rejected(message) ==
  [ok |-> FALSE, headers |-> <<>>, rows |-> <<>>, error |-> message]

(* The body of reader.onload of parseCSV and of parseExcel, on the grid of *)
(* cells (parseCSVText's lines, sheet_to_json's jsonData). *)
ParseGrid(lines, message) ==
  IF Len(lines) < 2 THEN Rejected(message)
  ELSE LET headers == [ k \in DOMAIN lines[1] |-> trim(lines[1][k]) ]
       IN Fulfilled(headers, DataRows(headers, lines, 2))

(* Parser.parseCSV *)
parseCSV(file) ==
  IF ~file.readable THEN Rejected("Failed to read file")
  ELSE ParseGrid(parseCSVText(file.text), "Failed to parse CSV file")

(* Parser.parseExcel; file.sheet is the grid sheet_to_json returns for the *)
(* first sheet. *)
parseExcel(file) ==
  IF ~file.readable THEN Rejected("Failed to read file")
  ELSE ParseGrid(file.sheet, "Failed to parse Excel file")

(* file.name.split('.').pop().toLowerCase() *)
Extension(file) == toLowerCase(LastSegment(file.name, "."))

(* Parser.parseFile *)
parseFile(file) ==
  IF Extension(file) = <<"c", "s", "v">> THEN parseCSV(file)
  ELSE IF Extension(file) \in {<<"x", "l", "s", "x">>, <<"x", "l", "s">>} THEN parseExcel(file)
  ELSE Rejected("Unsupported file format")

(***************************************************************************)
(* Inputs: the files an operator can upload and the preview template       *)
(***************************************************************************)
File(name, readable, text, sheet) ==
  [name |-> name, readable |-> readable, text |-> text, sheet |-> sheet]

(* not a spreadsheet *)
FilePdf == File(<<"a", ".", "p", "d", "f">>, TRUE, <<"C", "l", "i", "e", "n", "t">> \o <<"\n">> \o <<"A", "l">>, <<>>)

(* a header line only *)
FileHeaderOnly == File(<<"h", ".", "c", "s", "v">>, TRUE, <<"C", "l", "i", "e", "n", "t">> \o <<"\n">>, <<>>)

(* a header line and one blank data line *)
FileBlank == File(<<"b", ".", "c", "s", "v">>, TRUE, <<"C", "l", "i", "e", "n", "t">> \o <<"\n">> \o <<" ", ",">> \o <<"\n">>, <<>>)

(* one record, no terminator after it, upper-case extension *)
FileOne == File(<<"o", ".", "C", "S", "V">>, TRUE, <<"C", "l", "i", "e", "n", "t">> \o <<"\n">> \o <<"Z", "e", "d">>, <<>>)

(* three records, two of them of the same client; the second column is   *)
(* not a mapped one *)
FileThree ==
  File(<<"t", ".", "c", "s", "v">>, TRUE,
       <<"C", "l", "i", "e", "n", "t", ",", "n">> \o <<"\r", "\n">>
         \o <<"A", "l", ",", "1">> \o <<"\r", "\n">>
         \o <<"A", "l">> \o <<"\r", "\n">>
         \o <<"B", "&", "C", ",", "<", "2", ">">> \o <<"\r", "\n">>,
       <<>>)

(* a workbook whose first sheet has two records and an empty row *)
FileSheet ==
  File(<<"s", ".", "x", "l", "s", "x">>, TRUE, <<>>,
       << << <<"C", "l", "i", "e", "n", "t">>, <<" ", "D", "e", "s", "i", "r", "e", "d", " ", "C", "o", "m", "p", "l", "e", "t", "i", "o", "n", " ", "D", "a", "t", "e", " ">> >>,
          << <<"D", "i">>, <<"1", "<", "2">> >>,
          << <<>>, <<" ">> >>,
          << <<"E", "d">>, <<>> >> >>)

(* a file the FileReader fails on *)
FileUnreadable == File(<<"u", ".", "c", "s", "v">>, FALSE, <<>>, <<>>)

Files ==
  { FilePdf, FileHeaderOnly, FileBlank, FileOne, FileThree, FileSheet,
    FileUnreadable }

(* the text of Templates/format-docs.html, cut down to two placeholders *)
PreviewTemplate == <<"<", "b", ">", "[", "I", "N", "S", "E", "R", "T", "_", "C", "L", "I", "E", "N", "T", "_", "N", "A", "M", "E", "]", "<", "/", "b", ">", "[", "I", "N", "S", "E", "R", "T", "_", "D", "A", "T", "E", "]">>

(* parseFile and the extension are functions of the file: their values on *)
(* the files that can be uploaded *)
ParseOutcome == [ file \in Files |-> parseFile(file) ]

ExtensionOf == [ file \in Files |-> Extension(file) ]

(* the records of the files that can be uploaded *)
Records == UNION { Range(ParseOutcome[file].rows) : file \in Files }

(* fillTemplate is a function of the template and the record: its values   *)
(* on the records that can be uploaded *)
FilledTemplate == [ row \in Records |-> fillTemplate(PreviewTemplate, row) ]

(* Generator.fillTemplate(row) with Generator.template = tpl, loaded *)
Fill(tpl, row) ==
  IF tpl = PreviewTemplate /\ row \in Records THEN FilledTemplate[row]
  ELSE fillTemplate(tpl, row)

(* '<html><body></body></html>' *)
BlankDocument == <<"<", "h", "t", "m", "l", ">", "<", "b", "o", "d", "y", ">", "<", "/", "b", "o", "d", "y", ">", "<", "/", "h", "t", "m", "l", ">">>

(***************************************************************************)
(* Preview: the methods as functions of the object's fields                *)
(***************************************************************************)
PreviewObject(frame, rs, index, document) ==
  [iframe |-> frame, rows |-> rs, currentIndex |-> index, doc |-> document]

Outcome(p, ret) == [p |-> p, ret |-> ret]

(* setRows without the reset of the cursor *)
SetRowsKeepingCursor(p, newRows) == [p EXCEPT !.rows = newRows]

(* setRows that adds the new rows to the ones it has *)
SetRowsMerging(p, newRows) ==
  [p EXCEPT !.rows = @ \o newRows, !.currentIndex = 0]

(* Preview.setRows *)
setRows(p, newRows) == [p EXCEPT !.rows = newRows, !.currentIndex = 0]

(* a render that writes nothing to the iframe *)
RenderNothing(p, tpl) == Outcome(p, "undefined")

(* Preview.render with Generator.template = tpl (<<>>: not loaded).  It    *)
(* returns undefined or throws; rows[currentIndex] outside the array is    *)
(* undefined, and fillTemplate throws a TypeError on it. *)
render(p, tpl) ==
  IF ~p.iframe \/ Len(p.rows) = 0 THEN Outcome(p, "undefined")
  ELSE IF tpl = <<>> THEN Outcome(p, "throws")
  ELSE IF p.currentIndex + 1 \notin DOMAIN p.rows THEN Outcome(p, "throws")
  ELSE Outcome([p EXCEPT !.doc = Fill(tpl, p.rows[p.currentIndex + 1])],
               "undefined")

(* the statements after a call of render: skipped when render throws *)
AfterRender(r, ret) == Outcome(r.p, IF r.ret = "throws" THEN "throws" ELSE ret)

(* next without the test of the last index *)
NextUnchecked(p, tpl) == Outcome([p EXCEPT !.currentIndex = @ + 1], "true")

(* Preview.next *)
next(p, tpl) ==
  IF p.currentIndex < Len(p.rows) - 1
  THEN AfterRender(render([p EXCEPT !.currentIndex = @ + 1], tpl), "true")
  ELSE Outcome(p, "false")

(* Preview.previous *)
previous(p, tpl) ==
  IF p.currentIndex > 0
  THEN AfterRender(render([p EXCEPT !.currentIndex = @ - 1], tpl), "true")
  ELSE Outcome(p, "false")

(* Preview.goTo *)
goTo(p, index, tpl) ==
  IF index >= 0 /\ index < Len(p.rows)
  THEN AfterRender(render([p EXCEPT !.currentIndex = index], tpl), "undefined")
  ELSE Outcome(p, "undefined")

(* Preview.clear *)
clear(p) ==
  [p EXCEPT !.rows = <<>>, !.currentIndex = 0,
            !.doc = IF p.iframe THEN BlankDocument ELSE @]

(***************************************************************************)
(* Generator: batch generation and archive                                 *)
(***************************************************************************)
(* "html": the Generator with loadTemplate, fillTemplate and generateDocx; *)
(* "docx": the docxtemplater Generator of js/generator.js. *)
Builds == {"html", "docx"}

(* the bytes of Templates/template.docx, opaque *)
DocxTemplate == <<"P", "K">>

(* i % 5 === 0 of the HTML generator's generateAll *)
HtmlYieldEvery == 5

(* i % 10 === 0 of the docxtemplater generator's generateAll *)
DocxYieldEvery == 10

YieldEvery(b) == IF b = "html" THEN HtmlYieldEvery ELSE DocxYieldEvery

(* The data docxtemplater renders: <<tag, row[col] || ''>> per mapping *)
DocxData(row) ==
  [ k \in DOMAIN docxMappings |->
      << docxMappings[k][2], ValueOrEmpty(row, docxMappings[k][1]) >> ]

Document(filename, blob) == [filename |-> filename, blob |-> blob]

(* the document of the record without its values *)
DocumentOfNoRecord(b, tpl, row, index) ==
  Document(generateFilename(row, index),
           IF b = "html" THEN Fill(tpl, <<>>) ELSE DocxData(<<>>))

(* The document of one record: generateSingle of the docxtemplater         *)
(* generator, the body of the HTML generator's loop.  The codec            *)
(* (html-docx-js, docxtemplater) is a function of what it is given; its    *)
(* artifact is written as that input. *)
GenerateDocument(b, tpl, row, index) ==
  Document(generateFilename(row, index),
           IF b = "html" THEN Fill(tpl, row) ELSE DocxData(row))

(* A call of generateAll: the rows it was given, the loop variable i, the  *)
(* documents pushed so far, and the calls of the progress callback, each   *)
(* with the number of documents pushed when it was made. *)
Batch(rs, i, documents, calls, phase, entries) ==
  [kind |-> "gen", file |-> File(<<>>, FALSE, <<>>, <<>>), rows |-> rs,
   i |-> i, documents |-> documents, calls |-> calls, phase |-> phase,
   entries |-> entries]

(* a progress call with its two arguments exchanged *)
ProgressCallExchanged(current, total, pushed) ==
  [current |-> total, total |-> current, pushed |-> pushed]

ProgressCall(current, total, pushed) ==
  [current |-> current, total |-> total, pushed |-> pushed]

Step(task, status) == [task |-> task, status |-> status]

RECURSIVE RunLoop(_, _, _, _)
(* generateAll from `for (...; i < rows.length; ...)` with i = t.i until   *)
(* the next await of the timeout ("yield"), the return ("returned") or an  *)
(* exception ("threw").  failAt is the index of the record the codec fails *)
(* on, -1 when it fails on none; a template that is not loaded makes every *)
(* record fail. *)
RunLoop(b, tpl, t, failAt) ==
  IF ~(t.i < Len(t.rows)) THEN Step(t, "returned")
  ELSE IF tpl = <<>> \/ failAt = t.i THEN Step(t, "threw")
  ELSE
    LET documents == Append(t.documents,
                            GenerateDocument(b, tpl, t.rows[t.i + 1], t.i))
        calls == Append(t.calls,
                        ProgressCall(t.i + 1, Len(t.rows), Len(documents)))
        pushed == [t EXCEPT !.documents = documents, !.calls = calls,
                            !.i = t.i + 1]
    IN IF t.i % YieldEvery(b) = 0 THEN Step(pushed, "yield")
       ELSE RunLoop(b, tpl, pushed, failAt)

(* a candidate name with the counter after the suffix *)
RenameAfterSuffix(b, original, counter) ==
  original \o <<"_">> \o NumberToString(counter)

(* the candidate name the while loop of createZip computes from counter *)
RenameDuplicate(b, original, counter) ==
  IF b = "html"
  THEN ReplaceFirst(original, <<".", "d", "o", "c", "x">>, <<>>)
         \o <<"_">> \o NumberToString(counter) \o <<".", "d", "o", "c", "x">>
  ELSE ReplaceFirst(original, <<".", "d", "o", "c", "x">>,
                    <<"_">> \o NumberToString(counter) \o <<".", "d", "o", "c", "x">>)

(* createZip without its while loop: every document keeps its filename *)
KeepName(b, original, filename, counter, usedNames) == << filename >>

RECURSIVE UniqueName(_, _, _, _, _)
(* The while loop of createZip: <<filename>> when it ends, <<>> when it    *)
(* never does.  It ends after at most |usedNames| + 1 candidates if the    *)
(* candidates differ from one counter to the next; past that many they are *)
(* all the same used name and the loop runs for ever. *)
UniqueName(b, original, filename, counter, usedNames) ==
  IF filename \notin usedNames THEN << filename >>
  ELSE IF counter > Cardinality(usedNames) + 1 THEN <<>>
  ELSE UniqueName(b, original, RenameDuplicate(b, original, counter),
                  counter + 1, usedNames)

(* JSZip's zip.file(name, blob): an entry of the same name is replaced *)
ZipFile(zip, name, blob) ==
  IF \E k \in DOMAIN zip : zip[k].filename = name
  THEN [ k \in DOMAIN zip |->
           IF zip[k].filename = name THEN Document(name, blob) ELSE zip[k] ]
  ELSE Append(zip, Document(name, blob))

Archive(terminates, entries) == [terminates |-> terminates, entries |-> entries]

RECURSIVE ZipLoop(_, _, _, _, _)
(* `for (const doc of documents)` of createZip from document k on *)
ZipLoop(b, documents, k, usedNames, zip) ==
  IF k > Len(documents) THEN Archive(TRUE, zip)
  ELSE
    LET found == UniqueName(b, documents[k].filename, documents[k].filename,
                            1, usedNames)
    IN IF found = <<>> THEN Archive(FALSE, zip)
       ELSE ZipLoop(b, documents, k + 1, usedNames \cup {found[1]},
                    ZipFile(zip, found[1], documents[k].blob))

(* Generator.createZip: the entries of the archive, in order *)
createZip(b, documents) == ZipLoop(b, documents, 1, {}, <<>>)

(***************************************************************************)
(* State                                                                   *)
(***************************************************************************)
VARIABLES
  template,        \* Generator.template (docxTemplate in GenSpec's docx build)
  iframe,          \* Preview.iframe is set
  rows,            \* Preview.rows
  currentIndex,    \* Preview.currentIndex
  doc,             \* the document written to the preview iframe
  parsedData,      \* App.parsedData, an option
  templateLoaded,  \* App.templateLoaded
  initPc,          \* where App.init is
  loading,         \* the loading overlay is shown
  tasks,           \* the asynchronous operations in flight, a bag
  saved,           \* the saveAs calls of the last step
  lastOp,          \* the last call or handler step and how it ended
  build,           \* which Generator is loaded
  zipIn,           \* ZipSpec: the documents given to createZip
  zipOut,          \* ZipSpec: what createZip made of them
  call             \* a function called directly: its arguments and outcome

vars ==
  << template, iframe, rows, currentIndex, doc, parsedData, templateLoaded,
     initPc, loading, tasks, saved, lastOp, build, zipIn, zipOut, call >>

previewVars == << iframe, rows, currentIndex, doc >>

zipVars == << zipIn, zipOut >>

(* no function has been called directly *)
NoCall == [fn |-> "none"]

(* at most this many asynchronous operations in flight *)
MaxTasks == 2

(* goTo is called with the integers of -MaxGoTo .. MaxGoTo *)
MaxGoTo == 4

(* a call or handler step: its name, how it ended, and the number it is   *)
(* about (the records of a batch, the index goTo was given) *)
Op(name, ret, arg) == [op |-> name, ret |-> ret, arg |-> arg]

Preview == PreviewObject(iframe, rows, currentIndex, doc)

(* the Preview object becomes p *)
SetPreview(p) ==
  /\ iframe' = p.iframe
  /\ rows' = p.rows
  /\ currentIndex' = p.currentIndex
  /\ doc' = p.doc

(* the bag with one copy of each element of the sequence s of length <= 1 *)
BagOf(s) == SetToBag(Range(s))

InFlight == BagCardinality(tasks)


ParseTask(file) ==
  [kind |-> "parse", file |-> file, rows |-> <<>>, i |-> 0,
   documents |-> <<>>, calls |-> <<>>, phase |-> "read", entries |-> <<>>]

(* the state the scripts leave when they have been evaluated *)
Init ==
  /\ template = <<>>
  /\ iframe = FALSE
  /\ rows = <<>>
  /\ currentIndex = 0
  /\ doc = <<>>
  /\ parsedData = <<>>
  /\ templateLoaded = FALSE
  /\ initPc = "new"
  /\ loading = FALSE
  /\ tasks = EmptyBag
  /\ saved = <<>>
  /\ lastOp = Op("load", "undefined", 0)
  /\ build = "html"
  /\ zipIn = <<>>
  /\ zipOut = Archive(TRUE, <<>>)
  /\ call = NoCall

(***************************************************************************)
(* App                                                                     *)
(***************************************************************************)
(* App.init up to the fetch of loadTemplate: cacheElements (Preview.init)  *)
(* and bindEvents. *)
AppInit ==
  /\ initPc = "new"
  /\ initPc' = "fetching"
  /\ iframe' = TRUE
  /\ lastOp' = Op("init", "pending", 0)
  /\ saved' = <<>>
  /\ UNCHANGED << template, rows, currentIndex, doc, parsedData,
                  templateLoaded, loading, tasks, build, zipIn, zipOut, call >>

(* Generator.loadTemplate after the fetch: a response that is not ok       *)
(* rejects, an ok one sets the template and goes on to load the logo. *)
TemplateFetched(ok) ==
  /\ initPc = "fetching"
  /\ initPc' = IF ok THEN "logo" ELSE "ready"
  /\ template' = IF ok THEN PreviewTemplate ELSE template
  /\ lastOp' = Op("loadTemplate", IF ok THEN "pending" ELSE "failed", 0)
  /\ saved' = <<>>
  /\ UNCHANGED << iframe, rows, currentIndex, doc, parsedData,
                  templateLoaded, loading, tasks, build, zipIn, zipOut, call >>

(* App.loadTemplate after loadLogoAsBase64, which never rejects *)
TemplateLoaded ==
  /\ initPc = "logo"
  /\ initPc' = "ready"
  /\ templateLoaded' = TRUE
  /\ lastOp' = Op("loadTemplate", "loaded", 0)
  /\ saved' = <<>>
  /\ UNCHANGED << template, iframe, rows, currentIndex, doc, parsedData,
                  loading, tasks, build, zipIn, zipOut, call >>

(* the longest batch of records among the files *)
MaxRows == Greatest({ Len(ParseOutcome[file].rows) : file \in Files })

ValidExtensions == { <<"x", "l", "s", "x">>, <<"x", "l", "s">>, <<"c", "s", "v">> }

(* App.processFile up to `await Parser.parseFile(file)` *)
ProcessFile(file) ==
  /\ initPc # "new"
  /\ saved' = <<>>
  /\ IF ExtensionOf[file] \notin ValidExtensions
     THEN /\ lastOp' = Op("processFile", "rejected", 0)
          /\ UNCHANGED << loading, tasks >>
     ELSE /\ InFlight < MaxTasks
          /\ loading' = TRUE
          /\ tasks' = tasks (+) BagOf(<< ParseTask(file) >>)
          /\ lastOp' = Op("processFile", "pending", 0)
  /\ UNCHANGED << template, iframe, rows, currentIndex, doc, parsedData,
                  templateLoaded, initPc, build, zipIn, zipOut, call >>

(* App.processFile from the settling of parseFile on: the rest of the try  *)
(* block, or the catch block. *)
ParseSettled(t) ==
  /\ BagIn(t, tasks)
  /\ t.kind = "parse"
  /\ LET result == ParseOutcome[t.file]
         shown == render(setRows(Preview, result.rows), template)
     IN
     IF ~result.ok \/ Len(result.rows) = 0
     THEN /\ lastOp' = Op("processFile", "failed", 0)
          /\ UNCHANGED << parsedData, iframe, rows, currentIndex, doc >>
     ELSE /\ parsedData' = << [headers |-> result.headers, rows |-> result.rows] >>
          /\ SetPreview(shown.p)
          /\ lastOp' = Op("processFile",
                          IF shown.ret = "throws" THEN "failed" ELSE "loaded", 0)
  /\ loading' = FALSE
  /\ tasks' = tasks (-) BagOf(<< t >>)
  /\ saved' = <<>>
  /\ UNCHANGED << template, templateLoaded, initPc, build, zipIn, zipOut, call >>

(* The call `Preview.next()` *)
PreviewNext ==
  /\ LET r == next(Preview, template)
     IN /\ SetPreview(r.p)
        /\ lastOp' = Op("next", r.ret, 0)
  /\ saved' = <<>>
  /\ UNCHANGED << template, parsedData, templateLoaded, initPc, loading,
                  tasks, build, zipIn, zipOut, call >>

(* The call `Preview.previous()` *)
PreviewPrevious ==
  /\ LET r == previous(Preview, template)
     IN /\ SetPreview(r.p)
        /\ lastOp' = Op("previous", r.ret, 0)
  /\ saved' = <<>>
  /\ UNCHANGED << template, parsedData, templateLoaded, initPc, loading,
                  tasks, build, zipIn, zipOut, call >>

(* App.navigateNext: Preview.next(), then updateNavigation on true, which  *)
(* only writes the navigation labels and buttons. *)
NavigateNext == initPc # "new" /\ PreviewNext

(* App.navigatePrev *)
NavigatePrev == initPc # "new" /\ PreviewPrevious

(* App.reset *)
Reset ==
  /\ initPc # "new"
  /\ parsedData' = <<>>
  /\ SetPreview(clear(Preview))
  /\ lastOp' = Op("reset", "undefined", 0)
  /\ saved' = <<>>
  /\ UNCHANGED << template, templateLoaded, initPc, loading, tasks, build,
                  zipIn, zipOut, call >>

(* saveAs(blob, filename): an archive is written as its entries *)
Saved(filename, kind, entries) ==
  [filename |-> filename, kind |-> kind, entries |-> entries]

(* App.generateDocuments from the settling of generateAll on, for the      *)
(* outcome s of the loop: st is what the handler leaves behind. *)
AfterGenerateAll(s) ==
  LET n == Len(s.task.rows) IN
  IF s.status = "yield"
  THEN [task |-> << s.task >>, saved |-> <<>>, loading |-> TRUE,
        op |-> Op("generateDocuments", "pending", n)]
  ELSE IF s.status = "threw"
  THEN [task |-> <<>>, saved |-> <<>>, loading |-> FALSE,
        op |-> Op("generateDocuments", "failed", n)]
  ELSE IF Len(s.task.documents) = 1
  THEN [task |-> <<>>,
        saved |-> << Saved(s.task.documents[1].filename, "file",
                           s.task.documents) >>,
        loading |-> FALSE,
        op |-> Op("generateDocuments", "delivered", n)]
  ELSE LET zip == createZip(build, s.task.documents)
       IN IF zip.terminates
          THEN [task |-> << [s.task EXCEPT !.phase = "zip",
                                           !.entries = zip.entries] >>,
                saved |-> <<>>, loading |-> TRUE,
                op |-> Op("generateDocuments", "pending", n)]
          ELSE [task |-> << [s.task EXCEPT !.phase = "hung"] >>,
                saved |-> <<>>, loading |-> TRUE,
                op |-> Op("generateDocuments", "hung", n)]

(* App.generateDocuments up to the first timeout generateAll awaits *)
GenerateDocuments(failAt) ==
  /\ initPc # "new"
  /\ IF parsedData = <<>> \/ ~templateLoaded
     THEN /\ failAt = -1
          /\ lastOp' = Op("generateDocuments", "refused", 0)
          /\ saved' = <<>>
          /\ UNCHANGED << loading, tasks >>
     ELSE /\ InFlight < MaxTasks
          /\ failAt \in {-1, 0}
          /\ LET start == Batch(parsedData[1].rows, 0, <<>>, <<>>, "loop", <<>>)
                 a == AfterGenerateAll(RunLoop(build, template, start, failAt))
             IN /\ tasks' = tasks (+) BagOf(a.task)
                /\ saved' = a.saved
                /\ loading' = a.loading
                /\ lastOp' = a.op
  /\ UNCHANGED << template, iframe, rows, currentIndex, doc, parsedData,
                  templateLoaded, initPc, build, zipIn, zipOut, call >>

(* generateAll resumed after a timeout, and what generateDocuments does    *)
(* when it settles. *)
GenerateResumed(t, failAt) ==
  /\ BagIn(t, tasks)
  /\ t.kind = "gen"
  /\ t.phase = "loop"
  /\ failAt \in {-1} \cup (t.i .. Len(t.rows) - 1)
  /\ LET a == AfterGenerateAll(RunLoop(build, template, t, failAt))
     IN /\ tasks' = (tasks (-) BagOf(<< t >>)) (+) BagOf(a.task)
        /\ saved' = a.saved
        /\ loading' = a.loading
        /\ lastOp' = a.op
  /\ UNCHANGED << template, iframe, rows, currentIndex, doc, parsedData,
                  templateLoaded, initPc, build, zipIn, zipOut, call >>

(* App.generateDocuments after `await Generator.createZip(documents)` *)
ZipSettled(t) ==
  /\ BagIn(t, tasks)
  /\ t.kind = "gen"
  /\ t.phase = "zip"
  /\ saved' = << Saved(<<"S", "p", "e", "c", "i", "f", "i", "c", "a", "t", "i", "o", "n", "_", "D", "o", "c", "u", "m", "e", "n", "t", "s", ".", "z", "i", "p">>, "zip", t.entries) >>
  /\ loading' = FALSE
  /\ tasks' = tasks (-) BagOf(<< t >>)
  /\ lastOp' = Op("generateDocuments", "delivered", Len(t.rows))
  /\ UNCHANGED << template, iframe, rows, currentIndex, doc, parsedData,
                  templateLoaded, initPc, build, zipIn, zipOut, call >>

Next ==
  \/ AppInit
  \/ \E ok \in BOOLEAN : TemplateFetched(ok)
  \/ TemplateLoaded
  \/ \E file \in Files : ProcessFile(file)
  \/ \E t \in BagToSet(tasks) : ParseSettled(t)
  \/ NavigateNext
  \/ NavigatePrev
  \/ Reset
  \/ \E failAt \in {-1, 0} : GenerateDocuments(failAt)
  \/ \E t \in BagToSet(tasks), failAt \in -1 .. MaxRows - 1 :
       GenerateResumed(t, failAt)
  \/ \E t \in BagToSet(tasks) : ZipSettled(t)

Spec == Init /\ [][Next]_vars

(***************************************************************************)
(* The Preview object called directly, in any order                        *)
(***************************************************************************)
(* the arrays setRows is given: none, and the rows of each file *)
RowBatches == { <<>> } \cup { ParseOutcome[file].rows : file \in Files }

(* Preview.init(iframeElement) *)
PreviewInit ==
  /\ iframe' = TRUE
  /\ lastOp' = Op("init", "undefined", 0)
  /\ UNCHANGED << template, rows, currentIndex, doc, parsedData,
                  templateLoaded, initPc, loading, tasks, saved, build,
                  zipIn, zipOut, call >>

(* Generator.setTemplate(html) *)
SetTemplate(html) ==
  /\ template' = html
  /\ lastOp' = Op("setTemplate", "undefined", 0)
  /\ UNCHANGED << iframe, rows, currentIndex, doc, parsedData,
                  templateLoaded, initPc, loading, tasks, saved, build,
                  zipIn, zipOut, call >>

(* The call `Preview.setRows(rs)` *)
PreviewSetRows(rs) ==
  /\ SetPreview(setRows(Preview, rs))
  /\ lastOp' = Op("setRows", "undefined", Len(rs))
  /\ UNCHANGED << template, parsedData, templateLoaded, initPc, loading,
                  tasks, saved, build, zipIn, zipOut, call >>

(* The call `Preview.render()` *)
PreviewRender ==
  /\ LET r == render(Preview, template)
     IN /\ SetPreview(r.p)
        /\ lastOp' = Op("render", r.ret, 0)
  /\ UNCHANGED << template, parsedData, templateLoaded, initPc, loading,
                  tasks, saved, build, zipIn, zipOut, call >>

(* The call `Preview.goTo(index)` *)
PreviewGoTo(index) ==
  /\ LET r == goTo(Preview, index, template)
     IN /\ SetPreview(r.p)
        /\ lastOp' = Op("goTo", r.ret, index)
  /\ UNCHANGED << template, parsedData, templateLoaded, initPc, loading,
                  tasks, saved, build, zipIn, zipOut, call >>

(* The call `Preview.clear()` *)
PreviewClear ==
  /\ SetPreview(clear(Preview))
  /\ lastOp' = Op("clear", "undefined", 0)
  /\ UNCHANGED << template, parsedData, templateLoaded, initPc, loading,
                  tasks, saved, build, zipIn, zipOut, call >>

NavNext ==
  \/ PreviewInit
  \/ SetTemplate(PreviewTemplate)
  \/ \E rs \in RowBatches : PreviewSetRows(rs)
  \/ PreviewRender
  \/ PreviewNext
  \/ PreviewPrevious
  \/ \E index \in -MaxGoTo .. MaxGoTo : PreviewGoTo(index)
  \/ PreviewClear

NavSpec == Init /\ [][NavNext]_vars

(***************************************************************************)
(* C1  Navigator cursor invariant                                          *)
(***************************************************************************)
(* C1: in every state reached by any sequence of setRows, next, previous,  *)
(* goTo(i) for any integer i and clear, the cursor is an index of rows     *)
(* (0 <= currentIndex < rows.length) when rows is non-empty and is 0 when  *)
(* rows is empty. *)
C1_CursorInvariant ==
  /\ Len(rows) > 0 => 0 <= currentIndex /\ currentIndex < Len(rows)
  /\ Len(rows) = 0 => currentIndex = 0

(* goTo was given an index past the end while the cursor was on the last   *)
(* of three rows *)
C1_Witness ==
  /\ lastOp.op = "goTo"
  /\ lastOp.arg >= Len(rows)
  /\ Len(rows) = 3
  /\ currentIndex = 2

(***************************************************************************)
(* C4  Navigator transitions and the displayed document                    *)
(***************************************************************************)
(* the last call was a next() or previous() that returned true, or a       *)
(* goTo(i) with i in range that returned *)
CursorMoved ==
  \/ lastOp.op \in {"next", "previous"} /\ lastOp.ret = "true"
  \/ /\ lastOp.op = "goTo"
     /\ lastOp.arg \in 0 .. Len(rows) - 1
     /\ lastOp.ret = "undefined"

(* the iframe shows the fill of rows[currentIndex] *)
ShowsCurrentRow == doc = fillTemplate(template, rows[currentIndex + 1])

(* C4, as the code has it: on a Preview with its iframe set, every next()  *)
(* or previous() that returns true and every goTo(i) with i in range that  *)
(* returns has rendered the record at the new cursor, so the displayed     *)
(* document is the fill of rows[currentIndex]; setRows renders nothing,    *)
(* it leaves the displayed document as it was. *)
C4_MoveRenders ==
  /\ [](CursorMoved /\ iframe => ShowsCurrentRow)
  /\ [][\A rs \in RowBatches : PreviewSetRows(rs) => doc' = doc]_vars

(* next() returned true on a Preview with iframe and template, and the     *)
(* iframe shows the second record *)
C4_Witness ==
  /\ lastOp.op = "next"
  /\ lastOp.ret = "true"
  /\ iframe
  /\ template # <<>>
  /\ currentIndex = 1
  /\ doc = fillTemplate(template, rows[2])

(* C4, as the specification has it: every successful transition, setRows   *)
(* with non-empty rows included, leaves the fill of rows[currentIndex]     *)
(* displayed (here even only on a Preview with iframe and template). *)
C4_EveryTransitionRenders ==
  /\ iframe
  /\ template # <<>>
  /\ \/ CursorMoved
     \/ lastOp.op = "setRows" /\ lastOp.arg > 0
  => ShowsCurrentRow

(***************************************************************************)
(* C2  Navigator stepping                                                  *)
(***************************************************************************)
(* C2: next() moves the cursor by exactly +1 and returns true when the     *)
(* cursor is not at the last index, otherwise it returns false and leaves  *)
(* cursor and rows unchanged; previous() moves it by exactly -1 and        *)
(* returns true when the cursor is not at index 0, otherwise it returns    *)
(* false and leaves cursor and rows unchanged. *)
C2_Stepping ==
  [][ /\ lastOp'.op = "next" =>
           IF currentIndex < Len(rows) - 1
           THEN /\ currentIndex' = currentIndex + 1
                /\ rows' = rows
                /\ lastOp'.ret = "true"
           ELSE /\ lastOp'.ret = "false"
                /\ UNCHANGED << currentIndex, rows >>
      /\ lastOp'.op = "previous" =>
           IF currentIndex > 0
           THEN /\ currentIndex' = currentIndex - 1
                /\ rows' = rows
                /\ lastOp'.ret = "true"
           ELSE /\ lastOp'.ret = "false"
                /\ UNCHANGED << currentIndex, rows >> ]_vars

(***************************************************************************)
(* C3  Cursor reset                                                        *)
(***************************************************************************)
(* C3: after every successful upload the cursor is 0, the Preview holds    *)
(* the rows of the new data and shows the fill of the first of them; after *)
(* every App.reset the cursor is 0 and there are no rows. *)
C3_CursorReset ==
  /\ lastOp.op = "processFile" /\ lastOp.ret = "loaded" =>
       /\ currentIndex = 0
       /\ parsedData # <<>>
       /\ rows = parsedData[1].rows
       /\ Len(rows) > 0
       /\ doc = fillTemplate(template, rows[1])
  /\ lastOp.op = "reset" =>
       /\ currentIndex = 0
       /\ rows = <<>>
       /\ parsedData = <<>>

(* an upload of three records has succeeded while another upload is still  *)
(* being parsed *)
C3_Witness ==
  /\ lastOp.op = "processFile"
  /\ lastOp.ret = "loaded"
  /\ Len(rows) = 3
  /\ currentIndex = 0
  /\ InFlight = 1

(***************************************************************************)
(* C5  A failed upload and the prior state                                 *)
(***************************************************************************)
(* C5: a step in which App.processFile fails (unsupported extension, read  *)
(* or parse error, no data rows, an error raised while rendering the first *)
(* preview) leaves App.parsedData, Preview.rows and the cursor as they     *)
(* were. *)
C5_FailureKeepsState ==
  [][ lastOp'.op = "processFile" /\ lastOp'.ret \in {"failed", "rejected"}
        => UNCHANGED << parsedData, rows, currentIndex >> ]_vars

(***************************************************************************)
(* C6  Overlapping operations                                              *)
(***************************************************************************)
(* C6: while a parse or a batch generation is in flight no second upload   *)
(* or generation is started: at most one operation is in flight. *)
C6_NoOverlap == InFlight <= 1

(***************************************************************************)
(* C7  Fail-fast batch delivery                                            *)
(***************************************************************************)
(* the entries of the saved artifact have pairwise distinct names *)
DistinctNames(entries) ==
  \A j, k \in DOMAIN entries :
    entries[j].filename = entries[k].filename => j = k

(* C7: a step of App.generateDocuments that delivers a batch of K records  *)
(* makes exactly one saveAs call, of a single file when K = 1 and of an    *)
(* archive with K entries of distinct names otherwise; every other step,   *)
(* a failure of the generation of any record included, makes no saveAs     *)
(* call at all, and the failure is reported. *)
C7_FailFast ==
  /\ [](IF lastOp.op = "generateDocuments" /\ lastOp.ret = "delivered"
        THEN /\ Len(saved) = 1
             /\ Len(saved[1].entries) = lastOp.arg
             /\ DistinctNames(saved[1].entries)
             /\ saved[1].kind = (IF lastOp.arg = 1 THEN "file" ELSE "zip")
        ELSE saved = <<>>)
  /\ [][ \A t \in BagToSet(tasks) :
           \A failAt \in t.i .. Len(t.rows) - 1 :
             GenerateResumed(t, failAt) =>
               /\ lastOp'.ret = "failed"
               /\ saved' = <<>>
               /\ InFlight' = InFlight - 1 ]_vars

(* an archive of three records has been delivered *)
C7_Witness ==
  /\ lastOp.op = "generateDocuments"
  /\ lastOp.ret = "delivered"
  /\ lastOp.arg = 3
  /\ Len(saved) = 1
  /\ saved[1].kind = "zip"
  /\ Len(saved[1].entries) = 3

(***************************************************************************)
(* Generator.generateAll called directly, in either build                  *)
(***************************************************************************)
(* generateAll is given at most this many records *)
MaxBatch == 12

(* the i-th record of a batch: odd ones name their client, even ones have  *)
(* an empty Client and are named after their index *)
BatchRecord(i) ==
  [ h \in { <<"C", "l", "i", "e", "n", "t">> } |->
      IF i % 2 = 1 THEN <<"c">> \o NumberToString(i) ELSE <<>> ]

BatchRows(K) == [ i \in 1 .. K |-> BatchRecord(i) ]

(* either build, its template loaded or not *)
GenInit ==
  /\ build \in Builds
  /\ template \in { <<>>, IF build = "html" THEN PreviewTemplate
                                              ELSE DocxTemplate }
  /\ iframe = FALSE
  /\ rows = <<>>
  /\ currentIndex = 0
  /\ doc = <<>>
  /\ parsedData = <<>>
  /\ templateLoaded = FALSE
  /\ initPc = "new"
  /\ loading = FALSE
  /\ tasks = EmptyBag
  /\ saved = <<>>
  /\ lastOp = Op("load", "undefined", 0)
  /\ zipIn = <<>>
  /\ zipOut = Archive(TRUE, <<>>)
  /\ call = NoCall

(* the call s.task of generateAll as it is after the step s *)
Settled(s) ==
  [s.task EXCEPT !.phase = IF s.status = "yield" THEN "loop" ELSE s.status]

(* The call `Generator.generateAll(rows, onProgress)` with K records, up   *)
(* to its first timeout; the call before it has settled. *)
GenerateAll(K, failAt) ==
  /\ \A t \in BagToSet(tasks) : t.phase # "loop"
  /\ LET start == Batch(BatchRows(K), 0, <<>>, <<>>, "loop", <<>>)
         s == RunLoop(build, template, start, failAt)
     IN /\ tasks' = BagOf(<< Settled(s) >>)
        /\ lastOp' = Op("generateAll", s.status, K)
  /\ UNCHANGED << template, iframe, rows, currentIndex, doc, parsedData,
                  templateLoaded, initPc, loading, saved, build, zipIn,
                  zipOut, call >>

(* generateAll resumed after a timeout *)
GenerateAllResumed(t, failAt) ==
  /\ BagIn(t, tasks)
  /\ t.phase = "loop"
  /\ failAt \in {-1} \cup (t.i .. Len(t.rows) - 1)
  /\ LET s == RunLoop(build, template, t, failAt)
     IN /\ tasks' = BagOf(<< Settled(s) >>)
        /\ lastOp' = Op("generateAll", s.status, Len(t.rows))
  /\ UNCHANGED << template, iframe, rows, currentIndex, doc, parsedData,
                  templateLoaded, initPc, loading, saved, build, zipIn,
                  zipOut, call >>

GenNext ==
  \/ \E K \in 0 .. MaxBatch, failAt \in {-1, 0} : GenerateAll(K, failAt)
  \/ \E t \in BagToSet(tasks), failAt \in -1 .. MaxBatch - 1 :
       GenerateAllResumed(t, failAt)

GenSpec == GenInit /\ [][GenNext]_vars

(***************************************************************************)
(* C8  Batch order and progress                                            *)
(***************************************************************************)
(* C8: at every point of a call of generateAll with K records, the         *)
(* documents pushed so far are those of the first records in order, the    *)
(* i-th generated from the i-th record with index i; the progress callback *)
(* has been called once per pushed document, the j-th call with (j, K) and *)
(* made when exactly j documents had been pushed; a call that returns has  *)
(* pushed K documents. *)
C8_OrderAndProgress ==
  \A t \in BagToSet(tasks) :
    /\ Len(t.documents) = t.i
    /\ Len(t.calls) = t.i
    /\ \A k \in DOMAIN t.documents :
         /\ t.documents[k].filename = generateFilename(t.rows[k], k - 1)
         /\ t.documents[k].blob =
              (IF build = "html" THEN fillTemplate(template, t.rows[k])
                                 ELSE DocxData(t.rows[k]))
    /\ \A j \in DOMAIN t.calls :
         /\ t.calls[j].current = j
         /\ t.calls[j].total = Len(t.rows)
         /\ t.calls[j].pushed = j
    /\ t.phase = "returned" => t.i = Len(t.rows)

(* a call of the docxtemplater generator has returned after more than one  *)
(* timeout *)
C8_Witness ==
  \E t \in BagToSet(tasks) :
    /\ build = "docx"
    /\ t.phase = "returned"
    /\ Len(t.rows) > DocxYieldEvery + 1
    /\ Len(t.documents) = Len(t.rows)

(***************************************************************************)
(* Generator.createZip called directly, in either build                    *)
(***************************************************************************)
(* createZip is given at most this many documents *)
MaxDocs == 3

(* the filenames of the documents createZip is given *)
ZipNames == { <<"A", ".", "d", "o", "c", "x">>, <<"A", "_", "1", ".", "d", "o", "c", "x">>, <<"A">>, <<"A", ".", "d", "o", "c", "x", ".", "d", "o", "c", "x">> }

(* documents of these names, each with a blob of its own *)
ZipDocuments(names) ==
  [ k \in DOMAIN names |-> Document(names[k], NumberToString(k)) ]

ZipInit ==
  /\ build \in Builds
  /\ template = <<>>
  /\ iframe = FALSE
  /\ rows = <<>>
  /\ currentIndex = 0
  /\ doc = <<>>
  /\ parsedData = <<>>
  /\ templateLoaded = FALSE
  /\ initPc = "new"
  /\ loading = FALSE
  /\ tasks = EmptyBag
  /\ saved = <<>>
  /\ lastOp = Op("load", "undefined", 0)
  /\ zipIn = <<>>
  /\ zipOut = Archive(TRUE, <<>>)
  /\ call = NoCall

(* The call `Generator.createZip(documents)` *)
CreateZip(documents) ==
  /\ zipIn' = documents
  /\ zipOut' = createZip(build, documents)
  /\ lastOp' = Op("createZip",
                  IF zipOut'.terminates THEN "returned" ELSE "hung",
                  Len(documents))
  /\ UNCHANGED << template, iframe, rows, currentIndex, doc, parsedData,
                  templateLoaded, initPc, loading, tasks, saved, build,
                  call >>

ZipNext ==
  \E n \in 0 .. MaxDocs :
    \E names \in [1 .. n -> ZipNames] : CreateZip(ZipDocuments(names))

ZipSpec == ZipInit /\ [][ZipNext]_vars

(***************************************************************************)
(* C9  Archive name uniqueness                                             *)
(***************************************************************************)
(* C9: for every sequence of documents createZip terminates and places     *)
(* exactly one entry per document, the k-th entry holding the k-th         *)
(* document, with pairwise distinct entry names. *)
C9_OneEntryPerDocument ==
  /\ zipOut.terminates
  /\ Len(zipOut.entries) = Len(zipIn)
  /\ \A k \in DOMAIN zipOut.entries : zipOut.entries[k].blob = zipIn[k].blob
  /\ DistinctNames(zipOut.entries)

(***************************************************************************)
(* C10  Archive de-duplication rule                                        *)
(***************************************************************************)
(* the filename ends in ".docx" and has no other ".docx" in it *)
SuffixOnly(f) ==
  /\ Len(f) >= 5
  /\ SubSeq(f, Len(f) - 4, Len(f)) = <<".", "d", "o", "c", "x">>
  /\ \A i \in 1 .. Len(f) - 5 : SubSeq(f, i, i + 4) # <<".", "d", "o", "c", "x">>

(* f with _<n> inserted before its ".docx" suffix *)
Numbered(f, n) ==
  SubSeq(f, 1, Len(f) - 5) \o <<"_">> \o NumberToString(n) \o <<".", "d", "o", "c", "x">>

(* the name of the k-th entry is the k-th filename if that is free among   *)
(* the names `taken`, else the numbered name of the smallest n >= 1 that   *)
(* is not among the names placed before it *)
FollowsRule(k, taken) ==
  LET f == zipIn[k].filename
      name == zipOut.entries[k].filename
      placed == { zipOut.entries[j].filename : j \in 1 .. k - 1 }
  IN /\ f \notin taken => name = f
     /\ f \in taken =>
          \E n \in 1 .. Len(zipIn) :
            /\ name = Numbered(f, n)
            /\ name \notin placed
            /\ \A m \in 1 .. n - 1 : Numbered(f, m) \in placed

(* every filename createZip was given ends in its only ".docx" *)
SuffixedInput == \A k \in DOMAIN zipIn : SuffixOnly(zipIn[k].filename)

(* C10, as the code has it: documents are scanned in order; a document     *)
(* whose filename is not among the names already placed in the archive is  *)
(* stored under that filename unchanged, and one whose filename is already *)
(* placed is stored under the filename with _<n> inserted before the       *)
(* ".docx" suffix for the smallest n >= 1 whose name is not yet placed (for *)
(* filenames that end in their only ".docx"); two documents of the same    *)
(* filename yield the original name and the name suffixed with _1. *)
C10_DedupRule ==
  SuffixedInput /\ zipOut.terminates =>
    /\ Len(zipOut.entries) = Len(zipIn)
    /\ \A k \in DOMAIN zipIn :
         FollowsRule(k, { zipOut.entries[j].filename : j \in 1 .. k - 1 })

(* A.docx, A.docx, A_1.docx are stored as A.docx, A_1.docx, A_1_1.docx *)
C10_Witness ==
  /\ lastOp.op = "createZip"
  /\ Len(zipIn) = 3
  /\ [ k \in 1 .. 3 |-> zipIn[k].filename ] =
       << <<"A", ".", "d", "o", "c", "x">>, <<"A", ".", "d", "o", "c", "x">>, <<"A", "_", "1", ".", "d", "o", "c", "x">> >>
  /\ zipOut.terminates
  /\ [ k \in 1 .. 3 |-> zipOut.entries[k].filename ] =
       << <<"A", ".", "d", "o", "c", "x">>, <<"A", "_", "1", ".", "d", "o", "c", "x">>, <<"A", "_", "1", "_", "1", ".", "d", "o", "c", "x">> >>

(* C10, as the specification has it: the first document carrying a given   *)
(* filename is stored under it unchanged, and only a document whose        *)
(* filename an earlier document carries is renamed. *)
C10_FirstCarrierKeepsName ==
  SuffixedInput /\ zipOut.terminates =>
    /\ Len(zipOut.entries) = Len(zipIn)
    /\ \A k \in DOMAIN zipIn :
         FollowsRule(k, { zipIn[j].filename : j \in 1 .. k - 1 })

(***************************************************************************)
(* Parser.parseCSVText and Parser.parseCSV called directly                 *)
(***************************************************************************)
(* a CSV text has at most this many data lines *)
MaxLines == 3

(* the header lines of the texts, as their cells: one column, two, a cell  *)
(* with blanks around it, the same name twice, a blank header *)
HeaderPool ==
  { << <<"h">> >>, << <<"h">>, <<"k">> >>, << <<" ", "h", " ">> >>, << <<"h">>, <<"h">> >>, << <<>> >> }

(* the data lines of the texts, as their cells: a value, nothing, blanks   *)
(* only, a second cell only, a comma inside a cell, a quote inside a cell  *)
LinePool ==
  { << <<"a">> >>, << <<>> >>, << <<" ">>, <<>> >>, << <<>>, <<"b">> >>,
    << <<"c", ",", "d">>, <<"e">> >>, << <<"f", "\"", "g">> >> }

(* the field "Smith, ""Bob"" Jones" *)
SmithGrid == << << <<"h">> >>, << <<"S", "m", "i", "t", "h", ",", " ">> \o <<"\"">> \o <<"B", "o", "b">> \o <<"\"">> \o <<" ", "J", "o", "n", "e", "s">> >> >>

(* a header line and at most MaxLines data lines *)
Grids ==
  { SmithGrid } \cup
  UNION { { << header >> \o data : header \in HeaderPool,
                                 data \in [1 .. n -> LinePool] } :
          n \in 0 .. MaxLines }

(* the line terminators *)
Terminators == { << "\n" >>, << "\r", "\n" >> }

(* a cell has to be quoted to keep its value *)
NeedsQuotes(cell) == \E i \in DOMAIN cell : cell[i] \in {",", "\"", "\n", "\r"}

(* a cell as CSV writes it: in quotes, its quotes doubled, or as it is *)
EncodeCell(cell, quoteAll) ==
  IF quoteAll \/ NeedsQuotes(cell)
  THEN << "\"" >> \o SplitJoin(cell, << "\"" >>, << "\"", "\"" >>) \o << "\"" >>
  ELSE cell

(* the elements of ss with sep between them *)
Join(ss, sep) ==
  Concat([ i \in 1 .. 2 * Len(ss) - 1 |->
             IF i % 2 = 1 THEN ss[(i + 1) \div 2] ELSE sep ])

(* the text of a grid of cells *)
EncodeGrid(grid, quoteAll, eol, finalEol) ==
  Join([ k \in DOMAIN grid |->
           Join([ j \in DOMAIN grid[k] |-> EncodeCell(grid[k][j], quoteAll) ],
                << "," >>) ],
       eol)
    \o (IF finalEol THEN eol ELSE <<>>)

(* a text to parse, with the grid it was written from *)
CsvInput(grid, quoteAll, eol, finalEol) ==
  [fn |-> "text", grid |-> grid, quoteAll |-> quoteAll, eol |-> eol,
   finalEol |-> finalEol,
   text |-> EncodeGrid(grid, quoteAll, eol, finalEol),
   lines |-> <<>>, result |-> Rejected("")]

CsvInit ==
  /\ call \in { CsvInput(grid, quoteAll, eol, finalEol) :
                  grid \in Grids, quoteAll \in BOOLEAN,
                  eol \in Terminators, finalEol \in BOOLEAN }
  /\ template = <<>>
  /\ iframe = FALSE
  /\ rows = <<>>
  /\ currentIndex = 0
  /\ doc = <<>>
  /\ parsedData = <<>>
  /\ templateLoaded = FALSE
  /\ initPc = "new"
  /\ loading = FALSE
  /\ tasks = EmptyBag
  /\ saved = <<>>
  /\ lastOp = Op("load", "undefined", 0)
  /\ build = "html"
  /\ zipIn = <<>>
  /\ zipOut = Archive(TRUE, <<>>)

(* The call `Parser.parseCSVText(text)` *)
CallParseCSVText ==
  /\ call.fn = "text"
  /\ call' = [call EXCEPT !.fn = "parseCSVText",
                          !.lines = parseCSVText(call.text)]
  /\ lastOp' = Op("parseCSVText", "returned", 0)
  /\ UNCHANGED << template, iframe, rows, currentIndex, doc, parsedData,
                  templateLoaded, initPc, loading, tasks, saved, build,
                  zipIn, zipOut >>

(* The call `Parser.parseCSV(file)` on a readable file of that text, and   *)
(* the settling of its promise *)
CallParseCSV ==
  /\ call.fn = "text"
  /\ LET result == parseCSV(File(<<"x", ".", "c", "s", "v">>, TRUE, call.text, <<>>))
     IN /\ call' = [call EXCEPT !.fn = "parseCSV", !.result = result]
        /\ lastOp' = Op("parseCSV",
                        IF result.ok THEN "fulfilled" ELSE "rejected", 0)
  /\ UNCHANGED << template, iframe, rows, currentIndex, doc, parsedData,
                  templateLoaded, initPc, loading, tasks, saved, build,
                  zipIn, zipOut >>

CsvNext == CallParseCSVText \/ CallParseCSV

CsvSpec == CsvInit /\ [][CsvNext]_vars

(***************************************************************************)
(* C11: the parsed rows                                                    *)
(***************************************************************************)
(* a line of the grid the text was written from has no cell with a         *)
(* character that is not whitespace *)
GridLineIsBlank(line) ==
  \A j \in DOMAIN line : \A i \in DOMAIN line[j] : IsWhitespace(line[j][i])

(* the data lines of the grid that are not blank, in their order *)
NonBlankDataLines(grid) ==
  SelectSeq(Tail(grid), LAMBDA line : ~GridLineIsBlank(line))

(* C11: parseCSV returns one record for each data line with at least one   *)
(* non-whitespace cell, in the order of the lines, and none for a blank    *)
(* data line wherever it stands: a text with N data lines that are not     *)
(* blank gives exactly N records. *)
C11_ParsedRows ==
  call.fn = "parseCSV" =>
    LET expected == NonBlankDataLines(call.grid)
    IN IF expected = <<>>
       THEN call.result.rows = <<>>
       ELSE /\ call.result.ok
            /\ Len(call.result.rows) = Len(expected)
            /\ \A k \in DOMAIN expected :
                 call.result.rows[k] =
                   RowObject(call.result.headers, expected[k])

(* three data lines, the middle one blank, parsed into two records *)
C11_Witness ==
  /\ call.fn = "parseCSV"
  /\ Len(call.grid) = 4
  /\ ~GridLineIsBlank(call.grid[2])
  /\ GridLineIsBlank(call.grid[3])
  /\ ~GridLineIsBlank(call.grid[4])
  /\ call.grid[2] # call.grid[4]
  /\ Len(call.result.rows) = 2

(***************************************************************************)
(* C12: EmptyData                                                          *)
(***************************************************************************)
(* the lines of the grid that are not blank, the header line included *)
NonBlankLines(grid) == SelectSeq(grid, LAMBDA line : ~GridLineIsBlank(line))

(* C12: parseCSV fails, instead of returning a ParseResult, whenever the   *)
(* text has fewer than two lines that are not blank. *)
C12_EmptyData ==
  (call.fn = "parseCSV" /\ Len(NonBlankLines(call.grid)) < 2) =>
    ~call.result.ok

(***************************************************************************)
(* C13: quote-aware scanning                                               *)
(***************************************************************************)
(* C13: parseCSVText reads back the fields a text was written from: a      *)
(* comma inside quotes is part of the value, a doubled quote inside quotes *)
(* is one quote character, the enclosing quotes are not part of the value, *)
(* and outside quotes each \n and each \r\n ends a line.  Stated for texts *)
(* whose lines are all terminated. *)
C13_QuoteAware ==
  (call.fn = "parseCSVText" /\ call.finalEol) => call.lines = call.grid

(* "Smith, ""Bob"" Jones" read as the one field Smith, "Bob" Jones, from a *)
(* text with \r\n terminators *)
C13_Witness ==
  /\ call.fn = "parseCSVText"
  /\ call.finalEol
  /\ call.eol = << "\r", "\n" >>
  /\ \E i \in DOMAIN call.text : call.text[i] = ","
  /\ Len(call.lines) = 2
  /\ call.lines[2] = << <<"S", "m", "i", "t", "h", ",", " ">> \o <<"\"">> \o <<"B", "o", "b">> \o <<"\"">> \o <<" ", "J", "o", "n", "e", "s">> >>

(***************************************************************************)
(* C14: uniform records                                                    *)
(***************************************************************************)
(* the trimmed cells of the header line of the grid *)
TrimmedHeader(grid) == [ i \in DOMAIN grid[1] |-> trim(grid[1][i]) ]

(* the cell of a line at position i, the empty string when the line is     *)
(* shorter *)
CellOrEmpty(line, i) == IF i <= Len(line) THEN line[i] ELSE <<>>

(* C14 as amended: every record of a ParseResult has exactly the key set   *)
(* formed by the trimmed header cells; the value of a key is the cell of   *)
(* the line at the last position whose trimmed header cell is that key     *)
(* (position i for header i when the names are distinct), or the empty     *)
(* string when the line is shorter; cells beyond the header count are      *)
(* ignored. *)
C14_UniformRecords ==
  (call.fn = "parseCSV" /\ call.result.ok) =>
    LET header == TrimmedHeader(call.grid)
        expected == NonBlankDataLines(call.grid)
    IN /\ Len(call.result.rows) = Len(expected)
       /\ \A k \in DOMAIN call.result.rows :
            /\ DOMAIN call.result.rows[k] = Range(header)
            /\ \A i \in DOMAIN header :
                 (\A j \in DOMAIN header : header[j] = header[i] => j <= i)
                   => call.result.rows[k][header[i]]
                        = CellOrEmpty(expected[k], i)

(* a record of a text whose two header cells have the same name, from a    *)
(* line with two different cells *)
C14_Witness ==
  /\ call.fn = "parseCSV"
  /\ call.result.ok
  /\ call.grid[1] = << <<"h">>, <<"h">> >>
  /\ Len(call.grid) >= 2
  /\ call.grid[2] = << <<"c", ",", "d">>, <<"e">> >>
  /\ call.result.rows[1] = (<<"h">> :> <<"e">>)

(* C14 as stated: the value of header i is the cell at position i, or the  *)
(* empty string when the line is shorter. *)
C14_ValueOfHeaderIsCellAtItsPosition ==
  (call.fn = "parseCSV" /\ call.result.ok) =>
    LET header == TrimmedHeader(call.grid)
        expected == NonBlankDataLines(call.grid)
    IN /\ Len(call.result.rows) = Len(expected)
       /\ \A k \in DOMAIN call.result.rows :
            /\ DOMAIN call.result.rows[k] = Range(header)
            /\ \A i \in DOMAIN header :
                 call.result.rows[k][header[i]] = CellOrEmpty(expected[k], i)

(***************************************************************************)
(* C20: the unterminated last line                                         *)
(***************************************************************************)
(* what the text has after its last line terminator when its last line is  *)
(* not terminated *)
TrailingContent(c) ==
  LET last == c.grid[Len(c.grid)]
  IN Join([ j \in DOMAIN last |-> EncodeCell(last[j], c.quoteAll) ],
          << "," >>)

(* C20: whenever the text has content after its last line terminator, that *)
(* content is returned as a final line, whatever it is; a text that ends   *)
(* with a terminator gives no additional empty line. *)
C20_UnterminatedLastLine ==
  (call.fn = "parseCSVText" /\ (call.finalEol \/ TrailingContent(call) # <<>>))
    => /\ Len(call.lines) = Len(call.grid)
       /\ call.lines[Len(call.lines)] = call.grid[Len(call.grid)]

(***************************************************************************)
(* The fill and the per-record generation of both generators, called       *)
(* directly                                                                *)
(***************************************************************************)
RECURSIVE HtmlFillLoop(_, _, _)
(* The loop of fillHtmlTemplate over Object.entries(this.mappings), from   *)
(* entry k on: the placeholder is the tag in brackets. *)
HtmlFillLoop(html, row, k) ==
  IF k > Len(docxMappings) THEN html
  ELSE
    LET col == docxMappings[k][1]
        tag == docxMappings[k][2]
        val == ValueOrEmpty(row, col)
        placeholder == << "[" >> \o tag \o << "]" >>
    IN HtmlFillLoop(SplitJoin(html, placeholder, escapeHtml(val)), row, k + 1)

(* Generator.fillHtmlTemplate of the docxtemplater generator, with         *)
(* this.htmlTemplate = htmlTemplate (<<>>: not loaded) *)
fillHtmlTemplate(htmlTemplate, row) ==
  IF htmlTemplate = <<>> THEN <<>> ELSE HtmlFillLoop(htmlTemplate, row, 1)

(* what a call gives: the value it returns or the error it throws *)
Returned(value) == [threw |-> FALSE, value |-> value]

Thrown(message) == [threw |-> TRUE, value |-> message]

(* a call of Generator.fillTemplate with this.template = tpl *)
FillTemplateCall(tpl, rowData) ==
  IF tpl = <<>> THEN Thrown("Template not loaded")
  ELSE Returned(Fill(tpl, rowData))

(* a call of generateSingle of generator b with its template tpl: the      *)
(* HTML template of the HTML generator, Template.docx of the other *)
GenerateSingleCall(b, tpl, row, index) ==
  IF tpl = <<>>
  THEN Thrown(IF b = "html" THEN "Template not loaded"
              ELSE "Template.docx is missing")
  ELSE Returned(GenerateDocument(b, tpl, row, index))

(* the HTML templates: two placeholders, one placeholder twice, the        *)
(* placeholders in the other order, none *)
FillTemplates ==
  { PreviewTemplate,
    <<"[", "I", "N", "S", "E", "R", "T", "_", "C", "L", "I", "E", "N", "T", "_", "N", "A", "M", "E", "]", ",", " ", "[", "I", "N", "S", "E", "R", "T", "_", "C", "L", "I", "E", "N", "T", "_", "N", "A", "M", "E", "]">>,
    <<"<", "i", ">", "[", "I", "N", "S", "E", "R", "T", "_", "D", "A", "T", "E", "]", "<", "/", "i", ">", " ", "<", "p", ">", "[", "I", "N", "S", "E", "R", "T", "_", "C", "L", "I", "E", "N", "T", "_", "N", "A", "M", "E", "]", "<", "/", "p", ">">>,
    <<"<", "p", ">", "x", "<", "/", "p", ">">> }

(* the values of a cell: the empty string, plain text, quotes, markup, an  *)
(* ampersand, the placeholder tokens of two fields *)
FillValues ==
  { <<>>, <<"A", "l">>, << "a", "\"", "b", "'", "c" >>, <<"<", "s", "c", "r", "i", "p", "t", ">">>, <<"R", "&", "D">>,
    <<"[", "I", "N", "S", "E", "R", "T", "_", "D", "A", "T", "E", "]">>, <<"[", "I", "N", "S", "E", "R", "T", "_", "C", "L", "I", "E", "N", "T", "_", "N", "A", "M", "E", "]">> }

(* the records: each of the two columns absent or with one of the values *)
FillRows ==
  UNION { [ columns -> FillValues ] :
          columns \in SUBSET { <<"C", "l", "i", "e", "n", "t">>, <<"D", "e", "s", "i", "r", "e", "d", " ", "C", "o", "m", "p", "l", "e", "t", "i", "o", "n", " ", "D", "a", "t", "e">> } }

(* the arguments of a call: the record, and the templates the generator    *)
(* holds (<<>>: not loaded) *)
FillInput(tpl, docx, row) ==
  [fn |-> "record", tpl |-> tpl, docx |-> docx, row |-> row,
   out |-> Returned(<<>>)]

FillInit ==
  /\ call \in { FillInput(tpl, docx, row) :
                  tpl \in FillTemplates \cup { <<>> },
                  docx \in { DocxTemplate, <<>> },
                  row \in FillRows }
  /\ template = <<>>
  /\ iframe = FALSE
  /\ rows = <<>>
  /\ currentIndex = 0
  /\ doc = <<>>
  /\ parsedData = <<>>
  /\ templateLoaded = FALSE
  /\ initPc = "new"
  /\ loading = FALSE
  /\ tasks = EmptyBag
  /\ saved = <<>>
  /\ lastOp = Op("load", "undefined", 0)
  /\ build = "html"
  /\ zipIn = <<>>
  /\ zipOut = Archive(TRUE, <<>>)

(* what the call fn made of the arguments *)
Called(fn, out) ==
  /\ call.fn = "record"
  /\ call' = [call EXCEPT !.fn = fn, !.out = out]
  /\ lastOp' = Op(fn, IF out.threw THEN "throws" ELSE "returned", 0)
  /\ UNCHANGED << template, iframe, rows, currentIndex, doc, parsedData,
                  templateLoaded, initPc, loading, tasks, saved, zipIn,
                  zipOut >>

(* The call `Generator.fillTemplate(rowData)` of the HTML generator *)
CallFillTemplate ==
  /\ Called("fillTemplate", FillTemplateCall(call.tpl, call.row))
  /\ build' = "html"

(* The call `Generator.fillHtmlTemplate(row)` of the docxtemplater         *)
(* generator *)
CallFillHtmlTemplate ==
  /\ Called("fillHtmlTemplate",
            Returned(fillHtmlTemplate(call.tpl, call.row)))
  /\ build' = "docx"

(* The call `Generator.generateSingle(row, 0)` of generator b *)
CallGenerateSingle(b) ==
  /\ Called("generateSingle",
            GenerateSingleCall(b, IF b = "html" THEN call.tpl ELSE call.docx,
                               call.row, 0))
  /\ build' = b

FillNext ==
  \/ CallFillTemplate
  \/ CallFillHtmlTemplate
  \/ \E b \in Builds : CallGenerateSingle(b)

FillSpec == FillInit /\ [][FillNext]_vars

(***************************************************************************)
(* C15: the preview fill of absent values                                  *)
(***************************************************************************)
(* a call of the preview fill, of either generator, that returned a        *)
(* rendering of a loaded template *)
PreviewFilled ==
  /\ call.fn \in {"fillTemplate", "fillHtmlTemplate"}
  /\ call.tpl # <<>>
  /\ ~call.out.threw

(* txt has the token somewhere *)
Contains(txt, token) == \E i \in DOMAIN txt : OccursAt(txt, token, i)

(* C15: for every mapped field whose value is absent or the empty string   *)
(* the preview fill leaves no occurrence of the field's placeholder token  *)
(* in the rendering.  Stated for records none of whose values has a        *)
(* bracket, so that a token in the rendering is one of the template. *)
C15_AbsentValuesFilled ==
  (PreviewFilled /\ \A column \in DOMAIN call.row :
                      ~Contains(call.row[column], << "[" >>)) =>
    \A k \in DOMAIN mappings :
      ValueOrEmpty(call.row, mappings[k][1]) = <<>>
        => ~Contains(call.out.value, mappings[k][2])

(***************************************************************************)
(* C16: the escaping of the preview fill                                   *)
(***************************************************************************)
(* the number of positions of txt that hold the character c *)
Count(txt, c) == Cardinality({ i \in DOMAIN txt : txt[i] = c })

(* C16: none of the characters & < > " ' of a record value reaches the     *)
(* rendering unescaped: the rendering has the < > " ' of the template and  *)
(* no other, every & of it starts a character reference (the templates     *)
(* have none), and it has no <script>. *)
C16_ValuesEscaped ==
  PreviewFilled =>
    /\ \A c \in { "<", ">", "\"", "'" } :
         Count(call.out.value, c) = Count(call.tpl, c)
    /\ \A i \in DOMAIN call.out.value :
         call.out.value[i] = "&" =>
           \E name \in { <<"&", "a", "m", "p", ";">>, <<"&", "l", "t", ";">>, <<"&", "g", "t", ";">>, <<"&", "n", "b", "s", "p", ";">> } :
             OccursAt(call.out.value, name, i)
    /\ ~Contains(call.out.value, <<"<", "s", "c", "r", "i", "p", "t", ">">>)

(***************************************************************************)
(* C17: template not loaded                                                *)
(***************************************************************************)
(* C17: the preview fill and the per-record generation fail when the       *)
(* template they use has not been loaded; they return nothing. *)
C17_TemplateNotLoaded ==
  /\ (call.fn \in {"fillTemplate", "fillHtmlTemplate"} /\ call.tpl = <<>>)
       => call.out.threw
  /\ (call.fn = "generateSingle"
        /\ (IF build = "html" THEN call.tpl ELSE call.docx) = <<>>)
       => call.out.threw

(***************************************************************************)
(* C19: the preview fill is a substitution on the template                 *)
(***************************************************************************)
(* the template with every occurrence of a placeholder token replaced by   *)
(* the escaped value of its field, all at once: position i of the template *)
(* starts a token, lies inside one, or is kept *)
Substituted(tpl, row) ==
  LET Starts(k, i) == OccursAt(tpl, mappings[k][2], i)
      Inside(i) == \E k \in DOMAIN mappings :
                     \E j \in 1 .. i - 1 :
                       Starts(k, j) /\ i < j + Len(mappings[k][2])
  IN Concat([ i \in DOMAIN tpl |->
                IF \E k \in DOMAIN mappings : Starts(k, i)
                THEN LET k == CHOOSE k \in DOMAIN mappings : Starts(k, i)
                     IN escapeHtml(ValueOrEmpty(row, mappings[k][1]))
                ELSE IF Inside(i) THEN <<>>
                ELSE << tpl[i] >> ])

(* C19: the rendering is the template with every occurrence of each        *)
(* placeholder token replaced by the escaped value of its field and        *)
(* nothing else changed; text inserted from a value is not replaced        *)
(* afterwards. *)
C19_SubstitutionOnTemplate ==
  PreviewFilled => call.out.value = Substituted(call.tpl, call.row)

(***************************************************************************)
(* Generator.generateFilename called directly                              *)
(***************************************************************************)
(* a short Client value has at most this many characters *)
MaxClient == 3

(* the index of a record is at most this *)
MaxIndex == 2

(* the characters of the short Client values: a letter, a digit, a blank,  *)
(* a hyphen, an underscore and a character the file name may not have *)
ClientAlphabet == { "a", "7", " ", "-", "_", "!" }

(* a Client value of n characters, with blanks and characters that are     *)
(* removed: about three quarters of it are left *)
LongClient(n) ==
  [ i \in 1 .. n |-> IF i % 7 \in {0, 1} THEN " "
                     ELSE IF i % 5 = 0 THEN "!"
                     ELSE IF i % 3 = 0 THEN "Z" ELSE "a" ]

(* the Client values: every short one, and long ones *)
ClientValues ==
  UNION { [ 1 .. n -> ClientAlphabet ] : n \in 0 .. MaxClient }
    \cup { LongClient(n) : n \in FilenameStemMax + 10 .. FilenameStemMax + 25 }

(* the records: Client absent or with a value, with and without another    *)
(* column *)
NameRows ==
  LET other == <<"B", "u", "d", "g", "e", "t", "a", "r", "y", " ", "E", "s", "t", "i", "m", "a", "t", "e", "s">> :> <<"7">>
  IN { <<>>, other }
       \cup { <<"C", "l", "i", "e", "n", "t">> :> client : client \in ClientValues }
       \cup { (<<"C", "l", "i", "e", "n", "t">> :> client) @@ other : client \in ClientValues }

NameInit ==
  /\ call \in { [fn |-> "record", row |-> row, index |-> index, out |-> <<>>] :
                  row \in NameRows, index \in 0 .. MaxIndex }
  /\ template = <<>>
  /\ iframe = FALSE
  /\ rows = <<>>
  /\ currentIndex = 0
  /\ doc = <<>>
  /\ parsedData = <<>>
  /\ templateLoaded = FALSE
  /\ initPc = "new"
  /\ loading = FALSE
  /\ tasks = EmptyBag
  /\ saved = <<>>
  /\ lastOp = Op("load", "undefined", 0)
  /\ zipIn = <<>>
  /\ zipOut = Archive(TRUE, <<>>)
  /\ build \in Builds

(* The call `Generator.generateFilename(row, index)`: the function is the  *)
(* same in both generators *)
CallGenerateFilename ==
  /\ call.fn = "record"
  /\ call' = [call EXCEPT !.fn = "generateFilename",
                          !.out = generateFilename(call.row, call.index)]
  /\ lastOp' = Op("generateFilename", "returned", call.index)
  /\ UNCHANGED << template, iframe, rows, currentIndex, doc, parsedData,
                  templateLoaded, initPc, loading, tasks, saved, build,
                  zipIn, zipOut >>

NameSpec == NameInit /\ [][CallGenerateFilename]_vars

(***************************************************************************)
(* C18: the derivation of the filename                                     *)
(***************************************************************************)
(* the text the stem is made from: the Client value, or Document_<i+1>     *)
(* when the record has none or an empty one *)
StemSource(row, index) ==
  IF <<"C", "l", "i", "e", "n", "t">> \in DOMAIN row /\ row[<<"C", "l", "i", "e", "n", "t">>] # <<>>
  THEN row[<<"C", "l", "i", "e", "n", "t">>]
  ELSE <<"D", "o", "c", "u", "m", "e", "n", "t", "_">> \o NumberToString(index + 1)

(* letters, digits, hyphen and underscore *)
StemCharacters ==
  Range(UpperCase) \cup Range(LowerCase) \cup Range(Digits) \cup { "-", "_" }

(* position by position: a letter, digit, hyphen or underscore is kept,    *)
(* whitespace gives one underscore unless only dropped characters lie      *)
(* between it and whitespace before it, any other character is dropped *)
Sanitized(txt) ==
  LET Blank(i) == txt[i] \in { " ", "\t", "\n", "\r" }
      Dropped(i) == ~Blank(i) /\ txt[i] \notin StemCharacters
      InRun(i) == \E j \in 1 .. i - 1 :
                    Blank(j) /\ \A m \in j + 1 .. i - 1 : Dropped(m)
  IN Concat([ i \in DOMAIN txt |->
                IF txt[i] \in StemCharacters THEN << txt[i] >>
                ELSE IF Blank(i) /\ ~InRun(i) THEN << "_" >>
                ELSE <<>> ])

(* the first n characters of txt *)
Truncated(txt, n) == SubSeq(txt, 1, IF Len(txt) < n THEN Len(txt) ELSE n)

(* C18: generateFilename returns <stem>_Specification.docx, where stem is  *)
(* the Client value, or Document_<i+1> when Client is absent or empty,     *)
(* without the characters other than letters, digits, whitespace, hyphen   *)
(* and underscore, with every run of whitespace turned into one            *)
(* underscore, cut to 50 characters: the stem has only letters, digits,    *)
(* underscores and hyphens and at most 50 characters, the record {} at     *)
(* index 2 gives Document_3_Specification.docx, and nothing but the Client *)
(* value and the index enters the result. *)
C18_FilenameDerivation ==
  call.fn = "generateFilename" =>
    LET stem == Truncated(Sanitized(StemSource(call.row, call.index)), 50)
    IN /\ call.out = stem \o <<"_", "S", "p", "e", "c", "i", "f", "i", "c", "a", "t", "i", "o", "n", ".", "d", "o", "c", "x">>
       /\ Len(stem) <= 50
       /\ \A i \in DOMAIN stem :
            stem[i] \in StemCharacters
       /\ (call.row = <<>> /\ call.index = 2)
            => call.out = <<"D", "o", "c", "u", "m", "e", "n", "t", "_", "3", "_", "S", "p", "e", "c", "i", "f", "i", "c", "a", "t", "i", "o", "n", ".", "d", "o", "c", "x">>

(* a Client value of more than 50 characters, with blanks and characters   *)
(* that are removed, gives a stem of exactly 50 characters *)
C18_Witness ==
  /\ call.fn = "generateFilename"
  /\ <<"C", "l", "i", "e", "n", "t">> \in DOMAIN call.row
  /\ Len(call.row[<<"C", "l", "i", "e", "n", "t">>]) > 50
  /\ \E i \in DOMAIN call.row[<<"C", "l", "i", "e", "n", "t">>] : call.row[<<"C", "l", "i", "e", "n", "t">>][i] = "!"
  /\ Len(call.out) = 50 + Len(<<"_", "S", "p", "e", "c", "i", "f", "i", "c", "a", "t", "i", "o", "n", ".", "d", "o", "c", "x">>)
  /\ \E i \in 1 .. 50 : call.out[i] = "_"

(***************************************************************************)
(* C23: the stem of the filename is not empty                              *)
(***************************************************************************)
(* C23: for every record and index the part of the result of               *)
(* generateFilename before _Specification.docx is not empty. *)
C23_NonEmptyStem ==
  call.fn = "generateFilename" =>
    Len(call.out) > Len(<<"_", "S", "p", "e", "c", "i", "f", "i", "c", "a", "t", "i", "o", "n", ".", "d", "o", "c", "x">>)

(***************************************************************************)
(* C21: the state of an upload is replaced as a whole                      *)
(***************************************************************************)
(* C21: in every state of the App, whatever the interleaving of uploads,   *)
(* navigation, generation and reset, App.parsedData is null exactly when   *)
(* Preview.rows is empty, and when it is not null Preview.rows is the rows *)
(* of that one ParseResult, which is what the parser returned for one of   *)
(* the files and has at least one row. *)
C21_UploadStateConsistent ==
  /\ parsedData = <<>> <=> rows = <<>>
  /\ parsedData # <<>> =>
       /\ rows = parsedData[1].rows
       /\ Len(rows) >= 1
       /\ \E file \in Files :
            /\ ParseOutcome[file].ok
            /\ parsedData[1].rows = ParseOutcome[file].rows
            /\ parsedData[1].headers = ParseOutcome[file].headers

(* an upload has just been loaded while the parse of another file, with    *)
(* other rows, is still in flight *)
C21_Witness ==
  /\ lastOp = Op("processFile", "loaded", 0)
  /\ parsedData # <<>>
  /\ \E t \in BagToSet(tasks) :
       /\ t.kind = "parse"
       /\ ParseOutcome[t.file].ok
       /\ ParseOutcome[t.file].rows # <<>>
       /\ ParseOutcome[t.file].rows # rows

(***************************************************************************)
(* C22: generation works on a snapshot                                     *)
(***************************************************************************)
(* the documents are those of the first records of rs, in their order,     *)
(* each with the content and the name of its record *)
MadeFrom(documents, rs) ==
  /\ Len(documents) <= Len(rs)
  /\ \A k \in DOMAIN documents :
       /\ documents[k].blob = (IF build = "html" THEN Fill(template, rs[k])
                               ELSE DocxData(rs[k]))
       /\ documents[k].filename = generateFilename(rs[k], k - 1)

(* the entries of an archive are made of all the records of rs, in their   *)
(* order *)
ArchivedFrom(entries, rs) ==
  /\ Len(entries) = Len(rs)
  /\ \A k \in DOMAIN entries :
       entries[k].blob = (IF build = "html" THEN Fill(template, rs[k])
                          ELSE DocxData(rs[k]))

(* the batches of generateDocuments that the step has started or resumed *)
Continued == { t \in BagToSet(tasks') :
                 t.kind = "gen" /\ CopiesIn(t, tasks') > CopiesIn(t, tasks) }

(* C22: a batch takes the rows that are loaded when generateDocuments is   *)
(* called and keeps them: an upload or a reset that completes while it is  *)
(* in flight changes no batch, and the documents pushed, the totals of the *)
(* progress calls and what is delivered come from those rows only. *)
C22_Snapshot ==
  /\ [](\A t \in BagToSet(tasks) :
          t.kind = "gen" =>
            /\ MadeFrom(t.documents, t.rows)
            /\ \A j \in DOMAIN t.calls : t.calls[j].total = Len(t.rows)
            /\ t.phase = "zip" => ArchivedFrom(t.entries, t.rows))
  /\ [][ \A failAt \in {-1, 0} :
           (GenerateDocuments(failAt) /\ parsedData # <<>>) =>
             \A t \in Continued : t.rows = parsedData[1].rows ]_vars
  /\ [][ parsedData' # parsedData =>
           \A t \in BagToSet(tasks) \cup BagToSet(tasks') :
             t.kind = "gen" => CopiesIn(t, tasks') = CopiesIn(t, tasks) ]_vars
  /\ [][ \A t \in BagToSet(tasks) :
           \A failAt \in -1 .. Len(t.rows) - 1 :
             GenerateResumed(t, failAt) =>
               /\ \A u \in Continued : u.rows = t.rows
               /\ saved' # <<>> =>
                    /\ Len(t.rows) = 1
                    /\ MadeFrom(saved'[1].entries, t.rows) ]_vars
  /\ [][ \A t \in BagToSet(tasks) :
           ZipSettled(t) => /\ ArchivedFrom(saved'[1].entries, t.rows)
                            /\ lastOp'.arg = Len(t.rows) ]_vars

(* an archive has been delivered whose number of documents is not the      *)
(* number of rows loaded now: another upload, or a reset, completed while  *)
(* the batch was in flight *)
C22_Witness ==
  /\ lastOp.op = "generateDocuments"
  /\ lastOp.ret = "delivered"
  /\ Len(saved) = 1
  /\ Len(saved[1].entries) > 1
  /\ Len(saved[1].entries) # Len(rows)

====
